---- MODULE Spec2Model ----
(***************************************************************************)
(* DevSpectrum questionnaire (src/app.py): the scoring engine              *)
(* (compute_scores, build_profile_code), the persona lookups and the three *)
(* routes that call them (questionnaire, results, export_pdf).             *)
(*                                                                         *)
(* Representation.  A Python string on which the code does character work  *)
(* (a form field name, a submitted value, the lang parameter, the profile  *)
(* code) is a sequence of one-character strings: "q12" is <<"q","1","2">>. *)
(* A dimension letter is a single character.  Display texts (titles,       *)
(* labels, persona copy) are only ever passed through, and are TLA+        *)
(* strings; the zh texts are written by their English gloss, tagged [zh].  *)
(* The axis accumulators are Python floats holding sums of at most 28      *)
(* small integers, which are exact: they are integers here.                *)
(***************************************************************************)
EXTENDS Integers, Sequences, FiniteSets, TLC

VARIABLES
  QUESTIONS,       \* module global: the list of Question records
  AXES,            \* module global: axis key -> positive, negative, title
  LETTER_TO_AXIS,  \* module global: dimension letter -> axis key
  AXIS_SEQUENCE,   \* module global: the order of the axes in the code
  request,         \* the request the server is about to handle, or NoRequest
  history          \* the exchanges completed so far, oldest first

vars == <<QUESTIONS, AXES, LETTER_TO_AXIS, AXIS_SEQUENCE, request, history>>

tables == <<QUESTIONS, AXES, LETTER_TO_AXIS, AXIS_SEQUENCE>>

--------------------------------------------------------------------------
(* Bounds of the model *)

\* at most this many of q1..q28 are left out of a partial submission
MaxMissing == 2
\* at most this many extra fields are added to a submission
MaxExtra == 1
\* at most this many requests are served in a session of repeated scoring
MaxRequests == 3

--------------------------------------------------------------------------
(* Python values *)

\* None where a display string is expected, and where a dict is expected
None == "<None>"

NoDict == <<>>

Abs(x) == IF x >= 0 THEN x ELSE -x

Range(s) == {s[i] : i \in DOMAIN s}

DigitChars == <<"0", "1", "2", "3", "4", "5", "6", "7", "8", "9">>

IsDigit(c) == \E d \in 1..10 : DigitChars[d] = c

DigitValue(c) == (CHOOSE d \in 1..10 : DigitChars[d] = c) - 1

\* str(n) for an integer: its decimal digits, with a leading "-" when negative
RECURSIVE NatStr(_)
NatStr(n) == IF n < 10 THEN <<DigitChars[n + 1]>>
             ELSE NatStr(n \div 10) \o <<DigitChars[(n % 10) + 1]>>

str(n) == IF n < 0 THEN <<"-">> \o NatStr(-n) ELSE NatStr(n)

\* s.startswith(prefix)
startswith(s, prefix) ==
  /\ Len(s) >= Len(prefix)
  /\ SubSeq(s, 1, Len(prefix)) = prefix

\* s.lower() on the characters the model uses
LowerChar(c) ==
  CASE c = "E" -> "e"
    [] c = "N" -> "n"
    [] c = "Z" -> "z"
    [] c = "H" -> "h"
    [] c = "F" -> "f"
    [] c = "R" -> "r"
    [] OTHER -> c

lower(s) == [i \in 1..Len(s) |-> LowerChar(s[i])]

\* separator.join(parts)
RECURSIVE join(_, _)
join(separator, parts) ==
  IF parts = <<>> THEN <<>>
  ELSE IF Len(parts) = 1 THEN parts[1]
  ELSE parts[1] \o separator \o join(separator, Tail(parts))

\* s.strip(): int() ignores surrounding whitespace
RECURSIVE lstrip(_)
lstrip(s) == IF s # <<>> /\ s[1] = " " THEN lstrip(Tail(s)) ELSE s

RECURSIVE rstrip(_)
rstrip(s) == IF s # <<>> /\ s[Len(s)] = " " THEN rstrip(SubSeq(s, 1, Len(s) - 1)) ELSE s

strip(s) == rstrip(lstrip(s))

\* the text of an int literal after its sign: digits, single underscores between digits
IsDigits(body) ==
  /\ body # <<>>
  /\ IsDigit(body[1])
  /\ IsDigit(body[Len(body)])
  /\ \A i \in 1..Len(body) : IsDigit(body[i]) \/ body[i] = "_"
  /\ \A i \in 1..(Len(body) - 1) : ~(body[i] = "_" /\ body[i + 1] = "_")

RECURSIVE DigitsValue(_, _)
DigitsValue(body, acc) ==
  IF body = <<>> THEN acc
  ELSE IF body[1] = "_" THEN DigitsValue(Tail(body), acc)
  ELSE DigitsValue(Tail(body), 10 * acc + DigitValue(body[1]))

Unsigned(s) == IF s # <<>> /\ s[1] \in {"+", "-"} THEN Tail(s) ELSE s

\* int(s) raises ValueError exactly when this is false
IsIntLiteral(s) == IsDigits(Unsigned(strip(s)))

\* int(s), for a string that int() accepts
int(s) ==
  LET t == strip(s)
      magnitude == DigitsValue(Unsigned(t), 0)
  IN IF t[1] = "-" THEN -magnitude ELSE magnitude

--------------------------------------------------------------------------
(* The static tables *)

DEFAULT_LANGUAGE == <<"z", "h">>

LANGUAGES == {<<"z", "h">>, <<"e", "n">>}

LetterToAxisTable ==
  [letter \in {"A", "V", "F", "E", "R", "Q", "P", "C"} |->
     CASE letter \in {"A", "V"} -> "AV"
       [] letter \in {"F", "E"} -> "FE"
       [] letter \in {"R", "Q"} -> "RQ"
       [] letter \in {"P", "C"} -> "PC"]

LETTER_DESCRIPTIONS ==
  [language \in LANGUAGES |->
     IF language = <<"e", "n">>
     THEN [letter \in DOMAIN LetterToAxisTable |->
             CASE letter = "A" -> "A - Abstract"
               [] letter = "V" -> "V - Visual"
               [] letter = "F" -> "F - Familiar"
               [] letter = "E" -> "E - Exploration"
               [] letter = "R" -> "R - Rapid"
               [] letter = "Q" -> "Q - Quality"
               [] letter = "P" -> "P - Performance"
               [] letter = "C" -> "C - Code Readability"]
     ELSE [letter \in DOMAIN LetterToAxisTable |->
             CASE letter = "A" -> "A - [zh] Abstract"
               [] letter = "V" -> "V - [zh] Visual"
               [] letter = "F" -> "F - [zh] Familiar domain"
               [] letter = "E" -> "E - [zh] Exploration"
               [] letter = "R" -> "R - [zh] Rapid"
               [] letter = "Q" -> "Q - [zh] Quality"
               [] letter = "P" -> "P - [zh] Performance"
               [] letter = "C" -> "C - [zh] Code readability"]]

AxesTable ==
  [axis_key \in {"RQ", "PC", "FE", "AV"} |->
     CASE axis_key = "RQ" ->
            [positive |-> "R", negative |-> "Q", title |-> "Rapid vs Quality"]
       [] axis_key = "PC" ->
            [positive |-> "P", negative |-> "C", title |-> "Performance vs Code Readability"]
       [] axis_key = "FE" ->
            [positive |-> "F", negative |-> "E", title |-> "Familiar vs Exploration"]
       [] axis_key = "AV" ->
            [positive |-> "A", negative |-> "V", title |-> "Abstract vs Visual"]]

\* mutant: the axes in the alphabetical order of their keys
AxisSequenceSorted == <<"AV", "FE", "PC", "RQ">>

AxisSequenceTable == <<"RQ", "PC", "FE", "AV">>

PersonaTitles(en, zh) ==
  [title |-> [language \in LANGUAGES |-> IF language = <<"e", "n">> THEN en ELSE zh]]

PersonaEntries ==
  { <<<<"R", "P", "F", "A">>, PersonaTitles("Algorithm Engineer", "[zh] Algorithm Engineer")>>,
    <<<<"Q", "P", "F", "A">>, PersonaTitles("Data Analyst", "[zh] Data Analyst")>>,
    <<<<"R", "P", "E", "A">>, PersonaTitles("Algorithm Competitor", "[zh] Algorithm Competitor")>>,
    <<<<"Q", "P", "E", "A">>, PersonaTitles("System Optimizer", "[zh] System Optimizer")>>,
    <<<<"R", "C", "F", "A">>, PersonaTitles("Backend Engineer", "[zh] Backend Engineer")>>,
    <<<<"Q", "C", "F", "A">>, PersonaTitles("Backend Architect", "[zh] Backend Architect")>>,
    <<<<"R", "C", "E", "A">>, PersonaTitles("Data Miner", "[zh] Data Miner")>>,
    <<<<"Q", "C", "E", "A">>, PersonaTitles("Backend Developer", "[zh] Backend Developer")>>,
    <<<<"R", "C", "F", "V">>, PersonaTitles("Frontend CI/CD Specialist", "[zh] Frontend CICD Specialist")>>,
    <<<<"Q", "C", "F", "V">>, PersonaTitles("Frontend Architect", "[zh] Frontend Architect")>>,
    <<<<"R", "C", "E", "V">>, PersonaTitles("Frontend Engineer", "[zh] Frontend Engineer")>>,
    <<<<"Q", "C", "E", "V">>, PersonaTitles("Framework Innovator", "[zh] Frontend Framework Pioneer")>>,
    <<<<"R", "P", "F", "V">>, PersonaTitles("Game Developer", "[zh] Game Developer")>>,
    <<<<"Q", "P", "F", "V">>, PersonaTitles("Game Optimizer", "[zh] Game Optimizer")>>,
    <<<<"R", "P", "E", "V">>, PersonaTitles("Full-Stack Engineer", "[zh] Full-Stack Engineer")>>,
    <<<<"Q", "P", "E", "V">>, PersonaTitles("Visualization Engineer", "[zh] Visualization Engineer")>> }

\* mutant: the table lacks the persona of one derivable code
PersonaMapWithoutQPEV ==
  [profile_code \in {entry[1] : entry \in PersonaEntries} \ {<<"Q", "P", "E", "V">>} |->
     (CHOOSE entry \in PersonaEntries : entry[1] = profile_code)[2]]

PERSONA_MAP ==
  [profile_code \in {entry[1] : entry \in PersonaEntries} |->
     (CHOOSE entry \in PersonaEntries : entry[1] = profile_code)[2]]

\* Question(id, dimension, prompt_cn, prompt_en, reverse=False); the prompts are
\* display text that no operation reads
Question(id, dimension, reverse) ==
  [id |-> id, dimension |-> dimension, reverse |-> reverse]

\* mutant: the even-numbered questions are the reverse-scored ones
QuestionTableEvenReversed ==
  [i \in 1..28 |->
     Question(i,
              CASE i <= 7 -> "A"
                [] i \in {8, 11} -> "F"
                [] i \in {9, 10, 12, 13, 14} -> "E"
                [] i \in {15, 16, 19, 21} -> "R"
                [] i \in {17, 18, 20} -> "Q"
                [] i \in {22, 23, 26} -> "P"
                [] OTHER -> "C",
              i % 2 = 0)]

\* mutant: the second question of the AV axis is worded for the pole V
QuestionTableWithVisual ==
  [i \in 1..28 |->
     Question(i,
              CASE i = 2 -> "V"
                [] i <= 7 -> "A"
                [] i \in {8, 11} -> "F"
                [] i \in {9, 10, 12, 13, 14} -> "E"
                [] i \in {15, 16, 19, 21} -> "R"
                [] i \in {17, 18, 20} -> "Q"
                [] i \in {22, 23, 26} -> "P"
                [] OTHER -> "C",
              i \in {2, 4, 6, 9, 11, 13, 16, 18, 20, 23, 25, 27})]

QuestionTable ==
  << Question(1, "A", FALSE),  Question(2, "A", TRUE),   Question(3, "A", FALSE),
     Question(4, "A", TRUE),   Question(5, "A", FALSE),  Question(6, "A", TRUE),
     Question(7, "A", FALSE),
     Question(8, "F", FALSE),  Question(9, "E", TRUE),   Question(10, "E", FALSE),
     Question(11, "F", TRUE),  Question(12, "E", FALSE), Question(13, "E", TRUE),
     Question(14, "E", FALSE),
     Question(15, "R", FALSE), Question(16, "R", TRUE),  Question(17, "Q", FALSE),
     Question(18, "Q", TRUE),  Question(19, "R", FALSE), Question(20, "Q", TRUE),
     Question(21, "R", FALSE),
     Question(22, "P", FALSE), Question(23, "P", TRUE),  Question(24, "C", FALSE),
     Question(25, "C", TRUE),  Question(26, "P", FALSE), Question(27, "C", TRUE),
     Question(28, "C", FALSE) >>

\* Question.field_name: f"q{self.id}"
field_name(question) == <<"q">> \o str(question.id)

--------------------------------------------------------------------------
(* Copy and persona content *)

\* COPY[language]["errors"]: the two templates, by the language that owns them
COPY ==
  [language \in LANGUAGES |->
     IF language = <<"e", "n">>
     THEN [errors |->
             [missing_questions |->
                "Please answer every question before submitting. Missing: {missing}",
              incomplete_pdf |-> "Unable to export PDF because answers are incomplete."]]
     ELSE [errors |->
             [missing_questions |-> "[zh] Please answer all questions first (missing: {missing}).",
              incomplete_pdf |-> "[zh] Cannot export the PDF because the answers are incomplete."]]]

\* data/persona_content.json as loaded at import: profile code -> language -> entry.
\* The file is not among the sources; the tests fix that the code of the all-ones
\* answers ("RPEA") has sections and a tagline in both languages.  The other
\* entries are the shapes the loader admits: a language missing, an entry with
\* nothing of substance, a tagline without a "sections" key, an empty entry, no
\* entry at all.
PERSONA_CONTENT ==
  [profile_code \in { <<"R", "P", "E", "A">>, <<"R", "P", "F", "A">>, <<"Q", "C", "E", "V">>,
                      <<"Q", "P", "F", "V">>, <<"R", "C", "F", "A">> } |->
     CASE profile_code = <<"R", "P", "E", "A">> ->
            [language \in LANGUAGES |->
               IF language = <<"e", "n">>
               THEN [sections |-> <<"You are a fast-thinking problem solver">>,
                     tagline |-> "en tagline RPEA",
                     tagline_heading |-> "en heading RPEA"]
               ELSE [sections |-> <<"[zh] You are the kind who loves a challenge">>,
                     tagline |-> "zh tagline RPEA",
                     tagline_heading |-> "zh heading RPEA"]]
       [] profile_code = <<"R", "P", "F", "A">> ->
            [language \in {<<"z", "h">>} |->
               [sections |-> <<"zh section RPFA 1", "zh section RPFA 2">>,
                tagline |-> "zh tagline RPFA"]]
       [] profile_code = <<"Q", "C", "E", "V">> ->
            [language \in LANGUAGES |->
               IF language = <<"e", "n">>
               THEN [sections |-> <<>>, tagline |-> ""]
               ELSE [tagline |-> "zh tagline QCEV"]]
       [] profile_code = <<"Q", "P", "F", "V">> -> <<>>
       [] profile_code = <<"R", "C", "F", "A">> ->
            [language \in {<<"e", "n">>} |-> [sections |-> <<"en section RCFA">>]]]

\* mapping.get(key, default)
Get(mapping, key, default) == IF key \in DOMAIN mapping THEN mapping[key] ELSE default

\* the truth value Python gives an entry's "sections" list and its "tagline" string
HasSections(entry) == "sections" \in DOMAIN entry /\ entry.sections # <<>>

HasTagline(entry) == "tagline" \in DOMAIN entry /\ entry.tagline \notin {"", None}

\* value is None or value == ""  (the test "not value" on an optional string)
resolve_language(present, value) ==
  IF ~present \/ value = <<>> THEN DEFAULT_LANGUAGE
  ELSE LET normalized == lower(value)
       IN IF normalized \in LANGUAGES THEN normalized ELSE DEFAULT_LANGUAGE

get_copy(language) == Get(COPY, language, COPY[DEFAULT_LANGUAGE])

get_letter_descriptions(language) ==
  Get(LETTER_DESCRIPTIONS, language, LETTER_DESCRIPTIONS[DEFAULT_LANGUAGE])

\* mutant: only the requested language is looked at
get_persona_content_no_fallback(profile_code, language) ==
  IF profile_code \in DOMAIN PERSONA_CONTENT
       /\ language \in DOMAIN PERSONA_CONTENT[profile_code]
       /\ (HasSections(PERSONA_CONTENT[profile_code][language])
             \/ HasTagline(PERSONA_CONTENT[profile_code][language]))
  THEN PERSONA_CONTENT[profile_code][language]
  ELSE NoDict

\* the entry, or None
get_persona_content(profile_code, language) ==
  IF profile_code \notin DOMAIN PERSONA_CONTENT \/ DOMAIN PERSONA_CONTENT[profile_code] = {}
  THEN NoDict
  ELSE LET persona_entry == PERSONA_CONTENT[profile_code]
           preferredUsable ==
             /\ language \in DOMAIN persona_entry
             /\ DOMAIN persona_entry[language] # {}
             /\ (HasSections(persona_entry[language]) \/ HasTagline(persona_entry[language]))
           fallbackUsable ==
             /\ DEFAULT_LANGUAGE \in DOMAIN persona_entry
             /\ DOMAIN persona_entry[DEFAULT_LANGUAGE] # {}
             /\ (HasSections(persona_entry[DEFAULT_LANGUAGE])
                   \/ HasTagline(persona_entry[DEFAULT_LANGUAGE]))
       IN IF preferredUsable THEN persona_entry[language]
          ELSE IF fallbackUsable THEN persona_entry[DEFAULT_LANGUAGE]
          ELSE NoDict

--------------------------------------------------------------------------
(* The scoring engine *)

\* mutant: the accumulators kept from the last result page instead of reset
InitialAxisScoresKept ==
  LET pages == SelectSeq(history, LAMBDA e : e.response.kind = "result")
  IN IF pages = <<>> THEN [axis_key \in DOMAIN AXES |-> 0]
     ELSE pages[Len(pages)].response.axis_scores

\* axis_scores = {axis_key: 0.0 for axis_key in AXES.keys()}
InitialAxisScores == [axis_key \in DOMAIN AXES |-> 0]

\* mutant: the reverse flag is ignored
ScoreQuestionNoReverse(question, raw_value) ==
  LET adjusted_value == raw_value
      axis_key == LETTER_TO_AXIS[question.dimension]
      axis_info == AXES[axis_key]
      orientation == IF axis_info.positive = question.dimension THEN 1 ELSE -1
      weighted_value == orientation * adjusted_value
  IN [question |-> question,
      raw |-> raw_value,
      adjusted |-> adjusted_value,
      axis |-> axis_key,
      orientation |-> orientation,
      weighted |-> weighted_value]

\* mutant: the letter of the question is ignored, every answer counts towards
\* the positive pole
ScoreQuestionNoOrientation(question, raw_value) ==
  LET adjusted_value == IF question.reverse THEN -raw_value ELSE raw_value
      axis_key == LETTER_TO_AXIS[question.dimension]
  IN [question |-> question,
      raw |-> raw_value,
      adjusted |-> adjusted_value,
      axis |-> axis_key,
      orientation |-> 1,
      weighted |-> adjusted_value]

\* mutant: a disagreement counts as a neutral answer
ScoreQuestionFloorAtZero(question, raw_value) ==
  LET floored == IF raw_value < 0 THEN 0 ELSE raw_value
      adjusted_value == IF question.reverse THEN -floored ELSE floored
      axis_key == LETTER_TO_AXIS[question.dimension]
      axis_info == AXES[axis_key]
      orientation == IF axis_info.positive = question.dimension THEN 1 ELSE -1
      weighted_value == orientation * adjusted_value
  IN [question |-> question,
      raw |-> raw_value,
      adjusted |-> adjusted_value,
      axis |-> axis_key,
      orientation |-> orientation,
      weighted |-> weighted_value]

\* mutant: the raw answer is clamped to [-2, 2] before it is scored
ScoreQuestionClamped(question, raw_value) ==
  LET clamped == IF raw_value > 2 THEN 2 ELSE IF raw_value < -2 THEN -2 ELSE raw_value
      adjusted_value == IF question.reverse THEN -clamped ELSE clamped
      axis_key == LETTER_TO_AXIS[question.dimension]
      axis_info == AXES[axis_key]
      orientation == IF axis_info.positive = question.dimension THEN 1 ELSE -1
      weighted_value == orientation * adjusted_value
  IN [question |-> question,
      raw |-> raw_value,
      adjusted |-> adjusted_value,
      axis |-> axis_key,
      orientation |-> orientation,
      weighted |-> weighted_value]

\* the body of the loop for one question whose answer parsed as raw_value
ScoreQuestion(question, raw_value) ==
  LET adjusted_value == IF question.reverse THEN -raw_value ELSE raw_value
      axis_key == LETTER_TO_AXIS[question.dimension]
      axis_info == AXES[axis_key]
      orientation == IF axis_info.positive = question.dimension THEN 1 ELSE -1
      weighted_value == orientation * adjusted_value
  IN [question |-> question,
      raw |-> raw_value,
      adjusted |-> adjusted_value,
      axis |-> axis_key,
      orientation |-> orientation,
      weighted |-> weighted_value]

\* the loop of compute_scores from question i on; form_data[...] raises KeyError
\* for an absent field and int() raises ValueError for a value it cannot parse
RECURSIVE ScoreLoop(_, _, _, _)
ScoreLoop(form_data, i, axis_scores, responses) ==
  IF i > Len(QUESTIONS)
  THEN [raised |-> None, axis_scores |-> axis_scores, responses |-> responses]
  ELSE LET question == QUESTIONS[i]
           field == field_name(question)
       IN IF field \notin DOMAIN form_data THEN [raised |-> "KeyError"]
          ELSE IF ~IsIntLiteral(form_data[field]) THEN [raised |-> "ValueError"]
          ELSE LET response == ScoreQuestion(question, int(form_data[field]))
               IN ScoreLoop(form_data, i + 1,
                            [axis_scores EXCEPT ![response.axis] = @ + response.weighted],
                            Append(responses, response))

compute_scores(form_data) == ScoreLoop(form_data, 1, InitialAxisScores, <<>>)

\* mutant: a tie selects the negative letter
SelectLetterStrict(info, score) == IF score > 0 THEN info.positive ELSE info.negative

\* selected = positive_letter if score >= 0 else negative_letter
SelectLetter(info, score) == IF score >= 0 THEN info.positive ELSE info.negative

\* mutant: the magnitude is the signed score
BreakdownEntrySigned(axis_key, axis_scores, letter_descriptions) ==
  LET info == AXES[axis_key]
      positive_letter == info.positive
      negative_letter == info.negative
      score == Get(axis_scores, axis_key, 0)
      selected == IF score >= 0 THEN info.positive ELSE info.negative
  IN [axis_key |-> axis_key,
      title |-> info.title,
      score |-> score,
      selected |-> selected,
      magnitude |-> score,
      positive_label |-> Get(letter_descriptions, positive_letter, positive_letter),
      negative_label |-> Get(letter_descriptions, negative_letter, negative_letter),
      selected_label |-> Get(letter_descriptions, selected, selected)]

\* mutant: the selected label is looked up without the letter as its default
BreakdownEntryNoDefault(axis_key, axis_scores, letter_descriptions) ==
  LET info == AXES[axis_key]
      positive_letter == info.positive
      negative_letter == info.negative
      score == Get(axis_scores, axis_key, 0)
      selected == IF score >= 0 THEN info.positive ELSE info.negative
  IN [axis_key |-> axis_key,
      title |-> info.title,
      score |-> score,
      selected |-> selected,
      magnitude |-> Abs(score),
      positive_label |-> Get(letter_descriptions, positive_letter, positive_letter),
      negative_label |-> Get(letter_descriptions, negative_letter, negative_letter),
      selected_label |-> Get(letter_descriptions, selected, None)]

\* the breakdown entry of one axis
BreakdownEntry(axis_key, axis_scores, letter_descriptions) ==
  LET info == AXES[axis_key]
      positive_letter == info.positive
      negative_letter == info.negative
      score == Get(axis_scores, axis_key, 0)
      selected == SelectLetter(info, score)
  IN [axis_key |-> axis_key,
      title |-> info.title,
      score |-> score,
      selected |-> selected,
      magnitude |-> Abs(score),
      positive_label |-> Get(letter_descriptions, positive_letter, positive_letter),
      negative_label |-> Get(letter_descriptions, negative_letter, negative_letter),
      selected_label |-> Get(letter_descriptions, selected, selected)]

\* the pair ("".join(code_letters), breakdown)
build_profile_code(axis_scores, letter_descriptions) ==
  LET breakdown == [k \in 1..Len(AXIS_SEQUENCE) |->
                      BreakdownEntry(AXIS_SEQUENCE[k], axis_scores, letter_descriptions)]
      code_letters == [k \in 1..Len(AXIS_SEQUENCE) |-> <<breakdown[k].selected>>]
  IN [profile_code |-> join(<<>>, code_letters), breakdown |-> breakdown]

--------------------------------------------------------------------------
(* The routes.  A request is [endpoint, method, args, form]; args and form are *)
(* functions from the names of the fields present to their values.  A view     *)
(* is the response of the route to a request: a record whose kind says what    *)
(* was returned.  An exception that leaves a view is Flask's HTTP 500.         *)

LangField == <<"l", "a", "n", "g">>

NoFields == <<>>

\* request.values: the query arguments first, then the form
Values(req) ==
  [field \in DOMAIN req.args \cup DOMAIN req.form |->
     IF field \in DOMAIN req.args THEN req.args[field] ELSE req.form[field]]

\* set_language: g.language = resolve_language(request.values.get("lang"))
set_language(req) ==
  resolve_language(LangField \in DOMAIN Values(req), Get(Values(req), LangField, <<>>))

ServerError(exception) == [kind |-> "error", status |-> 500, raised |-> exception]

\* redirect(url_for(endpoint, **query_params))
Redirect(endpoint, query_params) ==
  [kind |-> "redirect", status |-> 302, endpoint |-> endpoint, query |-> query_params]

\* mutant: only the first missing question is found
MissingIdsFirstOnly(form) ==
  LET absent == SelectSeq(QUESTIONS, LAMBDA question : field_name(question) \notin DOMAIN form)
  IN IF absent = <<>> THEN <<>> ELSE <<absent[1].id>>

\* the ids of the questions whose field is not in the form, in list order
MissingIds(form) ==
  LET absent == SelectSeq(QUESTIONS, LAMBDA question : field_name(question) \notin DOMAIN form)
  IN [k \in 1..Len(absent) |-> absent[k].id]

\* errors.missing_questions with {missing} replaced by the ids joined with ", "
MissingMessage(language, missing) ==
  [template |-> get_copy(language).errors.missing_questions,
   missing |-> join(<<",", " ">>, [k \in 1..Len(missing) |-> str(missing[k])])]

\* persona_meta = PERSONA_MAP.get(profile_code); the title in the language, or
\* in the default language, or None when the code has no persona
PersonaTitle(profile_code, language) ==
  IF profile_code \in DOMAIN PERSONA_MAP
  THEN LET title == PERSONA_MAP[profile_code].title
       IN IF Get(title, language, "") # "" THEN title[language]
          ELSE Get(title, DEFAULT_LANGUAGE, None)
  ELSE None

\* questionnaire(): GET and POST of "/"
questionnaire_view(req) ==
  LET language == set_language(req)
      letter_descriptions == get_letter_descriptions(language)
      missing == MissingIds(req.form)
      answer_fields ==
        [field \in {f \in DOMAIN req.form : startswith(f, <<"q">>)} |-> req.form[field]]
      query_params ==
        [field \in {LangField} \cup DOMAIN answer_fields |->
           IF field \in DOMAIN answer_fields THEN answer_fields[field] ELSE language]
  IN IF req.method = "POST"
     THEN IF missing # <<>>
          THEN [kind |-> "quiz", status |-> 200,
                error |-> MissingMessage(language, missing),
                submitted |-> [field \in DOMAIN req.form |-> req.form[field]],
                letter_descriptions |-> letter_descriptions]
          ELSE Redirect("results", query_params)
     ELSE [kind |-> "quiz", status |-> 200,
           error |-> NoDict,
           submitted |-> NoFields,
           letter_descriptions |-> letter_descriptions]

\* results(): GET of "/results"
results_view(req) ==
  LET language == set_language(req)
      letter_descriptions == get_letter_descriptions(language)
      complete == \A i \in 1..Len(QUESTIONS) : field_name(QUESTIONS[i]) \in DOMAIN req.args
      answer_fields ==
        [field \in {field_name(QUESTIONS[i]) : i \in 1..Len(QUESTIONS)} |-> req.args[field]]
      score_data == compute_scores(answer_fields)
      built == build_profile_code(score_data.axis_scores, letter_descriptions)
      profile_code == built.profile_code
      persona_title == PersonaTitle(profile_code, language)
      persona_content == get_persona_content(profile_code, language)
  IN IF ~complete THEN Redirect("questionnaire", [field \in {LangField} |-> language])
     ELSE IF score_data.raised # None THEN ServerError(score_data.raised)
     ELSE IF persona_content # NoDict /\ "sections" \notin DOMAIN persona_content
     THEN ServerError("KeyError")
     ELSE [kind |-> "result", status |-> 200,
           profile_code |-> profile_code,
           persona_title |-> persona_title,
           breakdown |-> built.breakdown,
           axis_scores |-> score_data.axis_scores,
           responses |-> score_data.responses,
           letter_descriptions |-> letter_descriptions,
           persona_sections |->
             IF persona_content # NoDict THEN persona_content.sections ELSE <<>>,
           persona_tagline |->
             IF persona_content # NoDict THEN Get(persona_content, "tagline", None) ELSE None,
           persona_tagline_heading |->
             IF persona_content # NoDict
             THEN Get(persona_content, "tagline_heading", None) ELSE None]

\* mutant: the PDF is always made in the default language
export_language_default(form_values) == DEFAULT_LANGUAGE

\* export_pdf's language = resolve_language(form_values.get("lang"))
export_language(form_values) ==
  resolve_language(LangField \in DOMAIN form_values, Get(form_values, LangField, <<>>))

\* export_pdf(): POST of "/export/pdf"
export_pdf_view(req) ==
  LET form_values == req.form
      language == export_language(form_values)
      answer_fields ==
        [field \in {f \in DOMAIN form_values : startswith(f, <<"q">>)} |-> form_values[field]]
      score_data == compute_scores(answer_fields)
      letter_descriptions == get_letter_descriptions(language)
      built == build_profile_code(score_data.axis_scores, letter_descriptions)
      profile_code == built.profile_code
      persona_title == PersonaTitle(profile_code, language)
      persona_content == get_persona_content(profile_code, language)
  IN IF Cardinality(DOMAIN answer_fields) # Len(QUESTIONS)
     THEN [kind |-> "rejected", status |-> 400,
           error_text |-> get_copy(language).errors.incomplete_pdf]
     ELSE IF score_data.raised # None THEN ServerError(score_data.raised)
     ELSE IF persona_content # NoDict /\ "sections" \notin DOMAIN persona_content
     THEN ServerError("KeyError")
     ELSE [kind |-> "pdf", status |-> 200,
           profile_code |-> profile_code,
           persona_title |-> persona_title,
           breakdown |-> built.breakdown,
           responses |-> score_data.responses,
           language |-> language,
           persona_sections |->
             IF persona_content # NoDict THEN persona_content.sections ELSE <<>>,
           persona_tagline |->
             IF persona_content # NoDict THEN Get(persona_content, "tagline", None) ELSE None,
           persona_tagline_heading |->
             IF persona_content # NoDict
             THEN Get(persona_content, "tagline_heading", None) ELSE None,
           download_name |->
             <<"D", "e", "v", "S", "p", "e", "c", "t", "r", "u", "m", "_">>
               \o profile_code \o <<".", "p", "d", "f">>]

\* health_check()
health_view(req) == [kind |-> "health", status |-> 200]

\* compute_scores then build_profile_code called directly on a form_data and a
\* letter -> label mapping, as expected_profile_code of the selenium test does
engine_view(req) ==
  LET score_data == compute_scores(req.form_data)
      built == build_profile_code(score_data.axis_scores, req.letter_descriptions)
  IN IF score_data.raised # None THEN [kind |-> "raised", raised |-> score_data.raised]
     ELSE [kind |-> "scored",
           profile_code |-> built.profile_code,
           breakdown |-> built.breakdown,
           axis_scores |-> score_data.axis_scores,
           responses |-> score_data.responses,
           letter_descriptions |-> req.letter_descriptions]

\* the persona lookups of results and export_pdf on a given profile code and
\* language: PERSONA_MAP.get with the title fallback, and get_persona_content
persona_view(req) ==
  [kind |-> "persona",
   persona_title |-> PersonaTitle(req.profile_code, req.language),
   persona_content |-> get_persona_content(req.profile_code, req.language)]

--------------------------------------------------------------------------
(* The submissions a client sends *)

QuestionIds == {QuestionTable[i].id : i \in 1..Len(QuestionTable)}

QuestionFields == {field_name(QuestionTable[i]) : i \in 1..Len(QuestionTable)}

\* LIKERT_OPTIONS: the values of the seven radio buttons
LIKERT_VALUES == -3..3

\* values a hand-made request can carry in place of a radio button's
OtherValues == { <<"4">>, <<"x">>, <<"+", "2">>, <<>> }

SubmittedValues == {str(v) : v \in LIKERT_VALUES} \cup OtherValues

\* every question answered with the same value (the tests' _baseline_answers)
UniformAnswers(value) == [field \in QuestionFields |-> value]

\* tests/selenium_quiz_test.py: the pole each axis must land on for a code
determine_axis_targets(profile_code) ==
  [axis_key \in Range(AxisSequenceTable) |->
     LET k == CHOOSE j \in 1..Len(AxisSequenceTable) : AxisSequenceTable[j] = axis_key
     IN IF profile_code[k] = AxesTable[axis_key].positive THEN "positive" ELSE "negative"]

raw_answer_for_question(question, axis_targets) ==
  LET axis_key == LetterToAxisTable[question.dimension]
      target == axis_targets[axis_key]
      axis_info == AxesTable[axis_key]
      orientation == IF axis_info.positive = question.dimension THEN 1 ELSE -1
      reverse == question.reverse
  IN IF target = "positive"
     THEN IF orientation = 1
          THEN (IF ~reverse THEN 3 ELSE -3)
          ELSE (IF ~reverse THEN -3 ELSE 3)
     ELSE IF orientation = 1
          THEN (IF ~reverse THEN -3 ELSE 3)
          ELSE (IF ~reverse THEN 3 ELSE -3)

\* question id -> raw answer
build_answer_plan(profile_code) ==
  LET axis_targets == determine_axis_targets(profile_code)
  IN [id \in QuestionIds |->
        raw_answer_for_question(
          QuestionTable[CHOOSE i \in 1..Len(QuestionTable) : QuestionTable[i].id = id],
          axis_targets)]

\* expected_profile_code's form_data: {f"q{question_id}": str(value)}
PlanAnswers(profile_code) ==
  LET answer_plan == build_answer_plan(profile_code)
  IN [field \in {<<"q">> \o str(id) : id \in DOMAIN answer_plan} |->
        str(answer_plan[CHOOSE id \in DOMAIN answer_plan : <<"q">> \o str(id) = field])]

\* one letter per axis, in the order of the axes
ProfileCodes ==
  { <<r, p, f, a>> : r \in {"R", "Q"}, p \in {"P", "C"}, f \in {"F", "E"}, a \in {"A", "V"} }

\* the complete, well-formed answer sets the submissions start from
BaseAnswers ==
  {UniformAnswers(str(v)) : v \in LIKERT_VALUES} \cup {PlanAnswers(c) : c \in ProfileCodes}

RECURSIVE SubsetsUpTo(_, _)
SubsetsUpTo(S, k) ==
  IF k = 0 THEN {{}}
  ELSE LET smaller == SubsetsUpTo(S, k - 1)
       IN smaller \cup {T \cup {x} : T \in smaller, x \in S}

Without(fields, absent) == [field \in DOMAIN fields \ absent |-> fields[field]]

\* names of fields that are no question's, one of them a question number too far
ExtraFields == { <<"q", "2", "9">>, <<"q", "u", "e", "r", "y">> }

WithFields(fields, names, value) ==
  [field \in DOMAIN fields \cup names |->
     IF field \in DOMAIN fields THEN fields[field] ELSE value]

\* the baseline answers less one answer
HoledAnswers == {Without(UniformAnswers(<<"1">>), {field}) : field \in QuestionFields}

\* values of the lang parameter
LangValues == { <<"e", "n">>, <<"E", "N">>, <<"z", "h">>, <<"f", "r">>, <<>> }

NoRequest == [endpoint |-> "none"]

Get_(endpoint, args) ==
  [endpoint |-> endpoint, method |-> "GET", args |-> args, form |-> NoFields]

Post(endpoint, form) ==
  [endpoint |-> endpoint, method |-> "POST", args |-> NoFields, form |-> form]

\* the route a submission is sent to: the quiz form and the PDF form POST
\* their fields, the results page takes them in the query string
Routes == {"questionnaire", "results", "export_pdf"}

RequestFor(route, fields) ==
  IF route = "results" THEN Get_(route, fields) ELSE Post(route, fields)

\* a direct call of the engine
EngineCall_(form_data, letter_descriptions) ==
  [endpoint |-> "engine", form_data |-> form_data, letter_descriptions |-> letter_descriptions]

\* letter -> label mappings handed to build_profile_code: the two languages', an
\* empty one, and one that labels the positive letters only
LetterMappings ==
  { LETTER_DESCRIPTIONS[<<"e", "n">>], LETTER_DESCRIPTIONS[<<"z", "h">>], NoFields,
    [letter \in {"R", "P", "F", "A"} |-> LETTER_DESCRIPTIONS[<<"e", "n">>][letter]] }

\* a direct lookup of a code's persona
PersonaLookup_(profile_code, language) ==
  [endpoint |-> "persona", profile_code |-> profile_code, language |-> language]

\* strings that are no derivable code: letters of no axis, a code cut short,
\* the letters of a code in another order, the empty string
AbsentCodes == { <<"X", "X", "X", "X">>, <<"R", "P", "F">>, <<"A", "F", "P", "R">>, <<>> }

\* the codes the selenium run targets by default
DEFAULT_PROFILE_CODES ==
  { <<"R", "P", "F", "A">>, <<"Q", "C", "E", "V">>, <<"R", "P", "E", "V">>,
    <<"Q", "P", "F", "V">> }

\* the requests of a session of repeated scoring
RepeatAnswers ==
  {UniformAnswers(str(v)) : v \in {0, 1}} \cup {PlanAnswers(c) : c \in DEFAULT_PROFILE_CODES}

RepeatRequests ==
  {Get_("health_check", NoFields),
   EngineCall_(UniformAnswers(<<"1">>), LETTER_DESCRIPTIONS[<<"e", "n">>]),
   Post("questionnaire", UniformAnswers(<<"1">>)),
   Post("questionnaire", Without(UniformAnswers(<<"1">>), {<<"q", "7">>})),
   PersonaLookup_(<<"R", "P", "E", "A">>, <<"e", "n">>)}
    \cup {Get_("results", fields) : fields \in RepeatAnswers}
    \cup {Post("export_pdf", fields) : fields \in RepeatAnswers}

--------------------------------------------------------------------------
(* The state machine *)

Init ==
  /\ QUESTIONS = QuestionTable
  /\ AXES = AxesTable
  /\ LETTER_TO_AXIS = LetterToAxisTable
  /\ AXIS_SEQUENCE = AxisSequenceTable
  /\ history = <<>>
  /\ \/ request = Get_("questionnaire", NoFields)
     \/ request = Get_("health_check", NoFields)
     \/ \E language \in LangValues :
          request = Get_("questionnaire", [field \in {LangField} |-> language])
     \* a base with one answer replaced by any submitted value
     \/ \E route \in Routes, base \in BaseAnswers, field \in QuestionFields,
           value \in SubmittedValues :
          request = RequestFor(route, [base EXCEPT ![field] = value])
     \* the baseline answers with between one and MaxMissing questions left out
     \/ \E route \in Routes, absent \in SubsetsUpTo(QuestionFields, MaxMissing) \ {{}} :
          request = RequestFor(route, Without(UniformAnswers(<<"1">>), absent))
     \* a base, or the baseline less one answer, with up to MaxExtra extra fields
     \/ \E route \in Routes, fields \in BaseAnswers \cup HoledAnswers,
           names \in SubsetsUpTo(ExtraFields, MaxExtra) \ {{}} :
          request = RequestFor(route, WithFields(fields, names, <<"1">>))
     \* a base, or the baseline less one answer, with a lang parameter
     \/ \E route \in Routes, fields \in BaseAnswers \cup HoledAnswers,
           language \in LangValues :
          request = RequestFor(route, WithFields(fields, {LangField}, language))
     \* the engine on a base with one answer replaced, and on a base with any mapping
     \/ \E base \in BaseAnswers, field \in QuestionFields, value \in SubmittedValues :
          request = EngineCall_([base EXCEPT ![field] = value], LETTER_DESCRIPTIONS[<<"e", "n">>])
     \/ \E base \in BaseAnswers, letter_descriptions \in LetterMappings :
          request = EngineCall_(base, letter_descriptions)
     \* the persona lookups on every derivable code and on strings that are none
     \/ \E profile_code \in ProfileCodes \cup AbsentCodes, language \in LANGUAGES :
          request = PersonaLookup_(profile_code, language)

InitRepeat ==
  /\ QUESTIONS = QuestionTable
  /\ AXES = AxesTable
  /\ LETTER_TO_AXIS = LetterToAxisTable
  /\ AXIS_SEQUENCE = AxisSequenceTable
  /\ request \in RepeatRequests
  /\ history = <<>>

\* the server answers the request; no route assigns to a module global
Serve(view) ==
  /\ history' = Append(history, [request |-> request, response |-> view])
  /\ request' = NoRequest
  /\ UNCHANGED tables

Questionnaire ==
  /\ request.endpoint = "questionnaire"
  /\ Serve(questionnaire_view(request))

Results ==
  /\ request.endpoint = "results"
  /\ Serve(results_view(request))

ExportPdf ==
  /\ request.endpoint = "export_pdf"
  /\ Serve(export_pdf_view(request))

HealthCheck ==
  /\ request.endpoint = "health_check"
  /\ Serve(health_view(request))

EngineCall ==
  /\ request.endpoint = "engine"
  /\ Serve(engine_view(request))

PersonaLookup ==
  /\ request.endpoint = "persona"
  /\ Serve(persona_view(request))

LastResponse == history[Len(history)].response

\* the client follows a redirect with a GET of its location
FollowRedirect ==
  /\ request = NoRequest
  /\ history # <<>>
  /\ LastResponse.kind = "redirect"
  /\ request' = Get_(LastResponse.endpoint, LastResponse.query)
  /\ UNCHANGED <<tables, history>>

\* the server receives another request
NextRequest ==
  /\ request = NoRequest
  /\ history # <<>>
  /\ Len(history) < MaxRequests
  /\ request' \in RepeatRequests
  /\ UNCHANGED <<tables, history>>

Next ==
  \/ Questionnaire
  \/ Results
  \/ ExportPdf
  \/ HealthCheck
  \/ EngineCall
  \/ PersonaLookup
  \/ FollowRedirect

NextRepeat ==
  \/ Next
  \/ NextRequest

Spec == Init /\ [][Next]_vars

SpecRepeat == InitRepeat /\ [][NextRepeat]_vars

--------------------------------------------------------------------------
(* What the properties speak of *)

Exchanges == Range(history)

\* the exchanges in which the engine ran to the end and everything it returned
\* is in the response: a result page, or a direct call
Scored == {e \in Exchanges : e.response.kind \in {"result", "scored"}}

\* the exchanges that end in a profile code and a breakdown
Profiled == {e \in Exchanges : e.response.kind \in {"result", "scored", "pdf"}}

\* the fields a request carries
FieldsOf(req) ==
  CASE req.endpoint = "engine" -> req.form_data
    [] req.endpoint = "results" -> req.args
    [] OTHER -> req.form

\* the request gives every question an integer in [-3, 3]
ValidComplete(req) ==
  \A field \in QuestionFields :
    /\ field \in DOMAIN FieldsOf(req)
    /\ IsIntLiteral(FieldsOf(req)[field])
    /\ int(FieldsOf(req)[field]) \in LIKERT_VALUES

\* every question is answered with this value
AllAnswered(req, value) ==
  \A field \in QuestionFields :
    field \in DOMAIN FieldsOf(req) /\ FieldsOf(req)[field] = value

\* the raw answer a request gives a question
RawAnswer(req, question) == int(FieldsOf(req)[field_name(question)])

QuestionsOfAxis(axis_key) ==
  {i \in 1..Len(QuestionTable) : LetterToAxisTable[QuestionTable[i].dimension] = axis_key}

\* (reverse ? -raw : raw) * (+1 if the letter is the axis's positive letter else -1)
Contribution(question, raw) ==
  (IF question.reverse THEN -raw ELSE raw)
    * (IF question.dimension = AxesTable[LetterToAxisTable[question.dimension]].positive
       THEN 1 ELSE -1)

RECURSIVE SumOver(_, _)
SumOver(f, S) ==
  IF S = {} THEN 0
  ELSE LET x == CHOOSE y \in S : TRUE IN f[x] + SumOver(f, S \ {x})

AxisKeys == {"RQ", "PC", "FE", "AV"}

--------------------------------------------------------------------------
(* C1 *)

\* C1: for every complete answer set of integers in [-3,3] and each of the four
\* axes, the axis score compute_scores returns is the sum, over exactly the
\* questions whose letter maps to the axis, of (reverse ? -raw : raw) times the
\* orientation; each record's weighted value is orientation x adjusted, and the
\* weighted values of an axis's records sum to its score.
C1_AxisScoreIsSum ==
  \A e \in Scored :
    ValidComplete(e.request) =>
      /\ DOMAIN e.response.axis_scores = AxisKeys
      /\ \A axis_key \in AxisKeys :
           /\ e.response.axis_scores[axis_key] =
                SumOver([i \in QuestionsOfAxis(axis_key) |->
                           Contribution(QuestionTable[i], RawAnswer(e.request, QuestionTable[i]))],
                        QuestionsOfAxis(axis_key))
           /\ e.response.axis_scores[axis_key] =
                LET mine == {k \in DOMAIN e.response.responses :
                               e.response.responses[k].axis = axis_key}
                IN SumOver([k \in mine |-> e.response.responses[k].weighted], mine)
      /\ \A k \in DOMAIN e.response.responses :
           LET r == e.response.responses[k]
           IN /\ r.weighted = r.orientation * r.adjusted
              /\ r.orientation \in {1, -1}
              /\ r.adjusted = (IF r.question.reverse THEN -r.raw ELSE r.raw)
              /\ r.raw = RawAnswer(e.request, r.question)

\* C1 witness: a scored answer set with differing answers, in which a
\* reverse-scored question of a negative letter contributes to a nonzero score
C1_Witness ==
  \E e \in Scored :
    /\ ValidComplete(e.request)
    /\ \E f, g \in QuestionFields : FieldsOf(e.request)[f] # FieldsOf(e.request)[g]
    /\ \E k \in DOMAIN e.response.responses :
         LET r == e.response.responses[k]
         IN r.question.reverse /\ r.orientation = -1 /\ r.raw = 2 /\ r.weighted = 2
    /\ e.response.axis_scores["RQ"] = 5

--------------------------------------------------------------------------
(* C2 *)

\* C2: the code build_profile_code returns has exactly 4 characters, and its
\* i-th character is the positive or the negative letter of the i-th axis of
\* RQ, PC, FE, AV: R or Q, then P or C, then F or E, then A or V.
C2_CodeShape ==
  \A e \in Profiled :
    LET code == e.response.profile_code
    IN /\ Len(code) = 4
       /\ code[1] \in {"R", "Q"}
       /\ code[2] \in {"P", "C"}
       /\ code[3] \in {"F", "E"}
       /\ code[4] \in {"A", "V"}
       /\ \A i \in 1..4 :
            code[i] \in {AxesTable[AxisSequenceTable[i]].positive,
                         AxesTable[AxisSequenceTable[i]].negative}

\* C2 witness: a code with a negative letter in the first and last place only
C2_Witness ==
  \E e \in Profiled : e.response.profile_code = <<"Q", "P", "F", "V">>

--------------------------------------------------------------------------
(* C3 *)

\* C3: for each axis build_profile_code selects the positive letter if and
\* only if the score is >= 0 and the negative letter if and only if it is < 0,
\* so a score of exactly 0 selects the positive letter; when all 28 answers
\* are 0 every axis score is 0 and the code is "RPFA".
C3_TieRule ==
  \A e \in Profiled :
    /\ \A k \in DOMAIN e.response.breakdown :
         LET entry == e.response.breakdown[k]
             info == AxesTable[entry.axis_key]
         IN /\ (entry.selected = info.positive) <=> (entry.score >= 0)
            /\ (entry.selected = info.negative) <=> (entry.score < 0)
            /\ e.response.profile_code[k] = entry.selected
    /\ AllAnswered(e.request, <<"0">>) =>
         /\ \A k \in DOMAIN e.response.breakdown : e.response.breakdown[k].score = 0
         /\ e.response.profile_code = <<"R", "P", "F", "A">>

\* C3 witness: a tie on one axis beside a negative and a positive score
C3_Witness ==
  \E e \in Profiled :
    /\ \E k \in 1..4 : e.response.breakdown[k].score = 0
                         /\ e.response.breakdown[k].selected
                              = AxesTable[e.response.breakdown[k].axis_key].positive
    /\ \E k \in 1..4 : e.response.breakdown[k].score < 0
    /\ \E k \in 1..4 : e.response.breakdown[k].score > 0

\* C3 witness of its example: the all-zero answers have been scored
C3_AllZeroScored ==
  \E e \in Profiled : AllAnswered(e.request, <<"0">>)

--------------------------------------------------------------------------
(* C4 *)

--------------------------------------------------------------------------
(* C5 *)

\* C5: when all 28 answers are 1 no axis score is 0; the scores are RQ = 3,
\* PC = 1, FE = -1, AV = 1 and the code is "RPEA".
C5_AllOnes ==
  \A e \in Profiled :
    AllAnswered(e.request, <<"1">>) =>
      /\ e.response.profile_code = <<"R", "P", "E", "A">>
      /\ [k \in 1..4 |-> e.response.breakdown[k].axis_key] = <<"RQ", "PC", "FE", "AV">>
      /\ [k \in 1..4 |-> e.response.breakdown[k].score] = <<3, 1, -1, 1>>
      /\ \A k \in 1..4 : e.response.breakdown[k].score # 0
      /\ e \in Scored =>
           e.response.axis_scores = [axis_key \in AxisKeys |->
                                       CASE axis_key = "RQ" -> 3
                                         [] axis_key = "PC" -> 1
                                         [] axis_key = "FE" -> -1
                                         [] axis_key = "AV" -> 1]

\* C5 witness: the all-ones answers have been scored for a result page
C5_Witness ==
  \E e \in Scored :
    /\ e.response.kind = "result"
    /\ AllAnswered(e.request, <<"1">>)
    /\ DOMAIN FieldsOf(e.request) = QuestionFields

--------------------------------------------------------------------------
(* C6 *)

\* the contributions of an axis's questions under a request's answers
Contributions(req, axis_key) ==
  [i \in QuestionsOfAxis(axis_key) |->
     Contribution(QuestionTable[i], RawAnswer(req, QuestionTable[i]))]

\* C6: for every axis and every complete answer set in which each question of
\* the axis has a strictly negative weighted contribution, the letter selected
\* for the axis is its negative letter and the magnitude |score| is the sum of
\* the absolute values of the axis's per-question weighted values.
C6_AllNegative ==
  \A e \in Profiled :
    \A k \in DOMAIN e.response.breakdown :
      LET entry == e.response.breakdown[k]
          mine == {n \in DOMAIN e.response.responses :
                     e.response.responses[n].axis = entry.axis_key}
      IN (\A i \in QuestionsOfAxis(entry.axis_key) :
            Contributions(e.request, entry.axis_key)[i] < 0)
           => /\ entry.selected = AxesTable[entry.axis_key].negative
              /\ entry.magnitude =
                   SumOver([n \in mine |-> Abs(e.response.responses[n].weighted)], mine)
              /\ entry.magnitude = Abs(entry.score)

\* C6 witness: an axis all of whose questions contribute negatively, by
\* different amounts
C6_Witness ==
  \E e \in Profiled :
    \E axis_key \in AxisKeys :
      /\ \A i \in QuestionsOfAxis(axis_key) : Contributions(e.request, axis_key)[i] < 0
      /\ \E i, j \in QuestionsOfAxis(axis_key) :
           /\ Contributions(e.request, axis_key)[i] = -1
           /\ Contributions(e.request, axis_key)[j] = -3

--------------------------------------------------------------------------
(* C7 *)

\* C7: for every complete answer set of integers in [-3,3] each axis score
\* lies in [-21, +21], because no axis has more than 7 questions and each
\* contribution is at most 3 in absolute value; both bounds are attained on
\* every axis: an axis whose questions all contribute +3 scores +21 and one
\* whose questions all contribute -3 scores -21.
C7_ScoreRange ==
  /\ \A axis_key \in DOMAIN AXES :
       Cardinality({i \in DOMAIN QUESTIONS :
                      LETTER_TO_AXIS[QUESTIONS[i].dimension] = axis_key}) <= 7
  /\ \A e \in Scored :
       ValidComplete(e.request) =>
         /\ \A n \in DOMAIN e.response.responses :
              Abs(e.response.responses[n].weighted) <= 3
         /\ \A axis_key \in AxisKeys :
              /\ e.response.axis_scores[axis_key] \in -21..21
              /\ (\A i \in QuestionsOfAxis(axis_key) :
                    Contributions(e.request, axis_key)[i] = 3)
                   => e.response.axis_scores[axis_key] = 21
              /\ (\A i \in QuestionsOfAxis(axis_key) :
                    Contributions(e.request, axis_key)[i] = -3)
                   => e.response.axis_scores[axis_key] = -21

\* C7 witness: one answer set puts two axes at +21 and the other two at -21
C7_Witness ==
  \E e \in Scored :
    /\ ValidComplete(e.request)
    /\ e.response.axis_scores["RQ"] = 21
    /\ e.response.axis_scores["PC"] = -21
    /\ e.response.axis_scores["FE"] = 21
    /\ e.response.axis_scores["AV"] = -21

--------------------------------------------------------------------------
(* C8 *)

\* C8: compute_scores returns exactly 28 records in the order of the question
\* list, ids 1..28 ascending; build_profile_code returns a breakdown of exactly
\* 4 entries with axis keys RQ, PC, FE, AV in that order, whose i-th entry has
\* the i-th character of the code as its selected letter, the axis's input
\* score as its score, |score| as its magnitude and, as its selected label,
\* the mapping's label for the selected letter, or the letter itself when the
\* mapping has none.
C8_OutputShape ==
  \A e \in Scored :
    /\ Len(e.response.responses) = 28
    /\ \A n \in 1..28 : e.response.responses[n].question.id = n
    /\ Len(e.response.breakdown) = 4
    /\ Len(e.response.profile_code) = 4
    /\ [k \in 1..4 |-> e.response.breakdown[k].axis_key] = <<"RQ", "PC", "FE", "AV">>
    /\ \A k \in 1..4 :
         LET entry == e.response.breakdown[k]
             mapping == e.response.letter_descriptions
         IN /\ entry.selected = e.response.profile_code[k]
            /\ entry.score = e.response.axis_scores[entry.axis_key]
            /\ entry.magnitude = Abs(entry.score)
            /\ entry.selected_label =
                 (IF entry.selected \in DOMAIN mapping THEN mapping[entry.selected]
                  ELSE entry.selected)

\* C8 witness: a mapping that labels some letters only, with a selected letter
\* it labels and a selected letter it does not
C8_Witness ==
  \E e \in Scored :
    /\ e.request.endpoint = "engine"
    /\ e.request.letter_descriptions = e.response.letter_descriptions
    /\ \E k \in 1..4 : /\ e.response.breakdown[k].selected = "Q"
                       /\ e.response.breakdown[k].selected_label = "Q"
    /\ \E k \in 1..4 : /\ e.response.breakdown[k].selected = "P"
                       /\ e.response.breakdown[k].selected_label = "P - Performance"

--------------------------------------------------------------------------
(* C9 *)

\* the request carries the 28 answers and, at most, a lang parameter
AnswersAndLanguage(fields) ==
  /\ QuestionFields \subseteq DOMAIN fields
  /\ DOMAIN fields \subseteq QuestionFields \cup {LangField}

\* a result page and a PDF report made from the same data
SameReport(page, report) ==
  /\ page.kind = "result"
  /\ report.kind = "pdf"
  /\ page.profile_code = report.profile_code
  /\ page.breakdown = report.breakdown
  /\ \A k \in DOMAIN page.breakdown :
       report.breakdown[k].score = page.axis_scores[page.breakdown[k].axis_key]
  /\ page.responses = report.responses
  /\ page.persona_title = report.persona_title
  /\ page.persona_sections = report.persona_sections
  /\ page.persona_tagline = report.persona_tagline
  /\ page.persona_tagline_heading = report.persona_tagline_heading
  /\ get_letter_descriptions(report.language) = page.letter_descriptions

\* C9: for the same complete answer set and the same language the results
\* route and the PDF export route derive identical axis_scores, responses,
\* profile_code and breakdown, and identical persona title, sections and
\* tagline: whenever one route has answered a request carrying the 28 answers
\* and a language, the other route's answer to the same fields is made from
\* the same data (and fails when the first failed).
C9_SameDataBothRoutes ==
  \A e \in Exchanges :
    /\ (e.request.endpoint = "results" /\ AnswersAndLanguage(e.request.args)) =>
         LET report == export_pdf_view(Post("export_pdf", e.request.args))
         IN IF e.response.kind = "result" THEN SameReport(e.response, report)
            ELSE e.response.kind = "error" /\ report = e.response
    /\ (e.request.endpoint = "export_pdf" /\ AnswersAndLanguage(e.request.form)) =>
         LET page == results_view(Get_("results", e.request.form))
         IN IF e.response.kind = "pdf" THEN SameReport(page, e.response)
            ELSE e.response.kind = "error" /\ page = e.response

\* C9 witness: a PDF made in English, from answers whose persona has content
\* in both languages
C9_Witness ==
  \E e \in Exchanges :
    /\ e.request.endpoint = "export_pdf"
    /\ AnswersAndLanguage(e.request.form)
    /\ LangField \in DOMAIN e.request.form
    /\ e.request.form[LangField] = <<"E", "N">>
    /\ e.response.kind = "pdf"
    /\ e.response.persona_title = "Algorithm Competitor"
    /\ e.response.persona_sections = <<"You are a fast-thinking problem solver">>
    /\ e.response.breakdown[1].selected_label = "R - Rapid"

--------------------------------------------------------------------------
(* C10 *)

\* the elements of a set of integers, ascending
RECURSIVE Ascending(_)
Ascending(S) ==
  IF S = {} THEN <<>>
  ELSE LET least == CHOOSE x \in S : \A y \in S : x <= y
       IN <<least>> \o Ascending(S \ {least})

\* the ids of the questions a form has no field for
AbsentIds(form) == {id \in QuestionIds : <<"q">> \o str(id) \notin DOMAIN form}

\* the text that lists ids separated by ", "
RECURSIVE Listing(_)
Listing(ids) ==
  IF ids = <<>> THEN <<>>
  ELSE IF Len(ids) = 1 THEN str(ids[1])
  ELSE str(ids[1]) \o <<",", " ">> \o Listing(Tail(ids))

\* C10: on a POST to the questionnaire with one or more of q1..q28 absent the
\* handler does not fail and does not redirect: it re-renders the quiz with an
\* error message that lists every missing question id, in ascending order, and
\* passes back all submitted fields unchanged; it redirects to results if and
\* only if no question id is missing.
C10_MissingAnswers ==
  \A e \in Exchanges :
    (e.request.endpoint = "questionnaire" /\ e.request.method = "POST") =>
      LET absent == AbsentIds(e.request.form)
      IN /\ e.response.kind \in {"quiz", "redirect"}
         /\ (e.response.kind = "redirect" /\ e.response.endpoint = "results") <=> absent = {}
         /\ absent # {} =>
              /\ e.response.kind = "quiz"
              /\ e.response.status = 200
              /\ e.response.error # NoDict
              /\ e.response.error.missing = Listing(Ascending(absent))
              /\ e.response.submitted = e.request.form

\* C10 witness: a POST without q3 and q17, answered by the quiz with both listed
C10_Witness ==
  \E e \in Exchanges :
    /\ e.request.endpoint = "questionnaire"
    /\ e.request.method = "POST"
    /\ AbsentIds(e.request.form) = {3, 17}
    /\ e.response.kind = "quiz"
    /\ e.response.error.missing = <<"3", ",", " ", "1", "7">>
    /\ Cardinality(DOMAIN e.response.submitted) = 26

--------------------------------------------------------------------------
(* C11 *)

\* C11: a PDF export request that lacks an answer for at least one of q1..q28
\* is rejected with the incomplete-PDF error and HTTP 400, whatever other
\* fields whose names start with "q" the form carries; compute_scores is never
\* reached with a question missing, so the export never fails on the lookup
\* of a missing field.
C11_IncompleteExportRejected ==
  \A e \in Exchanges :
    (e.request.endpoint = "export_pdf" /\ AbsentIds(e.request.form) # {}) =>
      /\ e.response.kind = "rejected"
      /\ e.response.status = 400
      /\ e.response.error_text =
           get_copy(export_language(e.request.form)).errors.incomplete_pdf

--------------------------------------------------------------------------
(* C12 *)

\* C12: whenever results or export_pdf invokes compute_scores, every one of
\* the 28 answers is an integer in [-3, 3]: a request that answers every
\* question but carries an out-of-range or non-integer value is turned away by
\* the route as a validation error; it is never scored into a result page or a
\* PDF, and never fails inside the engine.
C12_OnlyValidAnswersScored ==
  \A e \in Exchanges :
    /\ e.request.endpoint \in {"results", "export_pdf"}
    /\ AbsentIds(FieldsOf(e.request)) = {}
    /\ ~ValidComplete(e.request)
    => e.response.kind \notin {"result", "pdf", "error"}

--------------------------------------------------------------------------
(* C13 *)

\* the code has a persona with a title in both languages
Titled(profile_code) ==
  /\ profile_code \in DOMAIN PERSONA_MAP
  /\ \A language \in LANGUAGES :
       /\ language \in DOMAIN PERSONA_MAP[profile_code].title
       /\ PERSONA_MAP[profile_code].title[language] \notin {"", None}

\* C13: every profile code build_profile_code returns is one of the 16
\* combinations of one letter per axis and is a key of PERSONA_MAP with a title
\* in both languages, so the persona title of a result page or a PDF is that
\* title in the request's language and never empty; the lookup of a string
\* absent from the table yields the title None rather than failing, and the
\* lookup of any of the 16 codes yields its title.
C13_EveryCodeHasPersona ==
  /\ \A e \in Profiled :
       /\ e.response.profile_code \in ProfileCodes
       /\ Titled(e.response.profile_code)
  /\ \A e \in Exchanges :
       /\ e.response.kind = "result" =>
            e.response.persona_title =
              PERSONA_MAP[e.response.profile_code].title[set_language(e.request)]
       /\ e.response.kind = "pdf" =>
            e.response.persona_title =
              PERSONA_MAP[e.response.profile_code].title[e.response.language]
       /\ e.request.endpoint = "persona" =>
            /\ e.response.kind = "persona"
            /\ e.request.profile_code \in ProfileCodes =>
                 /\ Titled(e.request.profile_code)
                 /\ e.response.persona_title =
                      PERSONA_MAP[e.request.profile_code].title[e.request.language]
            /\ e.request.profile_code \notin DOMAIN PERSONA_MAP =>
                 e.response.persona_title = None

\* C13 witness: the result page in English of the answers planned for the code
\* QPEV, titled with that code's persona
C13_Witness ==
  \E e \in Exchanges :
    /\ e.request.endpoint = "results"
    /\ set_language(e.request) = <<"e", "n">>
    /\ e.response.kind = "result"
    /\ e.response.profile_code = <<"Q", "P", "E", "V">>
    /\ e.response.persona_title = "Visualization Engineer"

\* the lookup of a string that is no code has been answered with no persona
C13_AbsentCodeLookedUp ==
  \E e \in Exchanges :
    /\ e.request.endpoint = "persona"
    /\ e.request.profile_code = <<"X", "X", "X", "X">>
    /\ e.response.persona_title = None
    /\ e.response.persona_content = NoDict

--------------------------------------------------------------------------
(* C14 *)

\* the entry has sections or a tagline
Substantive(entry) ==
  \/ ("sections" \in DOMAIN entry /\ Len(entry.sections) > 0)
  \/ ("tagline" \in DOMAIN entry /\ entry.tagline # "")

\* the content of a code in a language, if the table has it
ContentIn(profile_code, language) ==
  IF profile_code \in DOMAIN PERSONA_CONTENT
       /\ language \in DOMAIN PERSONA_CONTENT[profile_code]
  THEN PERSONA_CONTENT[profile_code][language] ELSE NoDict

\* C14: get_persona_content(profile_code, language) returns the requested
\* language's entry when that entry has sections or a tagline; otherwise the
\* default language's (zh) entry when that one has sections or a tagline;
\* otherwise, and whenever the code has no content entry at all, None.  It
\* never returns an entry that has neither sections nor a tagline.
C14_TwoStepLookup ==
  \A e \in Exchanges :
    e.request.endpoint = "persona" =>
      LET preferred == ContentIn(e.request.profile_code, e.request.language)
          fallback == ContentIn(e.request.profile_code, <<"z", "h">>)
          content == e.response.persona_content
      IN /\ content # NoDict => Substantive(content)
         /\ IF preferred # NoDict /\ Substantive(preferred) THEN content = preferred
            ELSE IF fallback # NoDict /\ Substantive(fallback) THEN content = fallback
            ELSE content = NoDict
         /\ e.request.profile_code \notin DOMAIN PERSONA_CONTENT => content = NoDict

\* C14 witness: the lookup in English of a code whose content exists in zh
\* only, answered with the zh entry
C14_Witness ==
  \E e \in Exchanges :
    /\ e.request.endpoint = "persona"
    /\ e.request.profile_code = <<"R", "P", "F", "A">>
    /\ e.request.language = <<"e", "n">>
    /\ <<"e", "n">> \notin DOMAIN PERSONA_CONTENT[e.request.profile_code]
    /\ e.response.persona_content # NoDict
    /\ e.response.persona_content.tagline = "zh tagline RPFA"

--------------------------------------------------------------------------
(* C15 *)

\* C15: even-numbered prompts are reverse scored: in the question table a
\* question has reverse = true if and only if its id is even, and so the
\* engine negates the raw answer of exactly the even-numbered questions.
C15_EvenPromptsReversed ==
  /\ \A i \in 1..Len(QUESTIONS) : QUESTIONS[i].reverse <=> (QUESTIONS[i].id % 2 = 0)
  /\ \A e \in Scored :
       \A k \in 1..Len(e.response.responses) :
         LET record == e.response.responses[k]
         IN record.adjusted =
              IF record.question.id % 2 = 0 THEN -record.raw ELSE record.raw

--------------------------------------------------------------------------
(* C16 *)

\* the questions mapped to an axis
AxisQuestions(axis_key) ==
  {QUESTIONS[i] : i \in {j \in 1..Len(QUESTIONS) :
                          LETTER_TO_AXIS[QUESTIONS[j].dimension] = axis_key}}

\* among the axis's questions some are reverse scored and some are not
MixOfReverse(axis_key) ==
  /\ \E question \in AxisQuestions(axis_key) : question.reverse
  /\ \E question \in AxisQuestions(axis_key) : ~question.reverse

\* among the axis's questions some carry its positive letter, some its negative
MixOfPoles(axis_key) ==
  /\ \E question \in AxisQuestions(axis_key) : question.dimension = AXES[axis_key].positive
  /\ \E question \in AxisQuestions(axis_key) : question.dimension = AXES[axis_key].negative

\* C16, as stated: every axis contains at least one reverse and one non-reverse
\* question, at least one question of its positive letter and at least one of
\* its negative letter.
C16_MixOnEveryAxis ==
  \A axis_key \in DOMAIN AXES : MixOfReverse(axis_key) /\ MixOfPoles(axis_key)

\* C16, amended: every axis has seven questions, some reverse scored and some
\* not; the axes RQ, PC and FE have questions of both their letters, and the
\* axis AV has questions of its positive letter A only, so that every scored
\* answer to an AV question carries the orientation +1.
C16_MixExceptPolesOfAV ==
  /\ \A axis_key \in DOMAIN AXES :
       /\ Cardinality(AxisQuestions(axis_key)) = Len(QUESTIONS) \div Cardinality(DOMAIN AXES)
       /\ MixOfReverse(axis_key)
       /\ axis_key # "AV" => MixOfPoles(axis_key)
  /\ \A question \in AxisQuestions("AV") : question.dimension = AXES["AV"].positive
  /\ \A e \in Scored :
       \A k \in 1..Len(e.response.responses) :
         e.response.responses[k].axis = "AV" => e.response.responses[k].orientation = 1

\* C16 witness: the all-ones answers scored: the seven AV records all have
\* the orientation +1, four of them unreversed and three reversed, and the FE
\* records have both orientations
C16_Witness ==
  \E e \in Scored :
    /\ AllAnswered(e.request, <<"1">>)
    /\ LET records == e.response.responses
           OfAxis(axis_key) == {k \in 1..Len(records) : records[k].axis = axis_key}
       IN /\ Cardinality(OfAxis("AV")) = Cardinality(AxisQuestions("AV"))
          /\ \A k \in OfAxis("AV") : records[k].orientation = 1
          /\ Cardinality({k \in OfAxis("AV") : records[k].adjusted = 1}) = 4
          /\ Cardinality({k \in OfAxis("AV") : records[k].adjusted = -1}) = 3
          /\ \E k \in OfAxis("FE") : records[k].orientation = 1
          /\ \E k \in OfAxis("FE") : records[k].orientation = -1

--------------------------------------------------------------------------
(* C17 *)

\* the form data of the plan of each code
PlanOf == [profile_code \in ProfileCodes |-> PlanAnswers(profile_code)]

\* the request answers every question as the plan of the code does
FollowsPlan(req, profile_code) ==
  \A field \in QuestionFields :
    /\ field \in DOMAIN FieldsOf(req)
    /\ FieldsOf(req)[field] = PlanOf[profile_code][field]

\* +21 on an axis whose letter in the code is the positive one, -21 otherwise
PlannedScores(profile_code) ==
  [axis_key \in AxisKeys |->
     LET k == CHOOSE j \in 1..Len(AxisSequenceTable) : AxisSequenceTable[j] = axis_key
     IN IF profile_code[k] = AxesTable[axis_key].positive THEN 21 ELSE -21]

\* C17: for each of the 16 profile codes c, every raw answer of
\* build_answer_plan(c) is 3 or -3, and the plan is scored by compute_scores
\* and build_profile_code to exactly c, every axis score being +21 when c has
\* the axis's positive letter and -21 when it has the negative one: a direct
\* call of the engine on the plan never raises, and every call or route that
\* scores the plan ends in c with those scores.
C17_PlanRoundTrip ==
  \A e \in Exchanges :
    \A profile_code \in ProfileCodes :
      (e.request.endpoint \in {"engine", "results", "export_pdf"}
         /\ FollowsPlan(e.request, profile_code)) =>
        /\ \A id \in QuestionIds : build_answer_plan(profile_code)[id] \in {3, -3}
        /\ e.request.endpoint = "engine" => e.response.kind = "scored"
        /\ e \in Profiled =>
             /\ e.response.profile_code = profile_code
             /\ \A k \in 1..Len(e.response.breakdown) :
                  e.response.breakdown[k].score =
                    PlannedScores(profile_code)[e.response.breakdown[k].axis_key]
        /\ e \in Scored => e.response.axis_scores = PlannedScores(profile_code)

\* C17 witness: the engine called on the plan of RPEV returns RPEV, with +21
\* on RQ and PC and -21 on FE and AV
C17_Witness ==
  \E e \in Exchanges :
    /\ e.request.endpoint = "engine"
    /\ e.request.form_data = PlanAnswers(<<"R", "P", "E", "V">>)
    /\ e.response.kind = "scored"
    /\ e.response.profile_code = <<"R", "P", "E", "V">>
    /\ e.response.axis_scores = [RQ |-> 21, PC |-> 21, FE |-> -21, AV |-> -21]
    /\ \E field \in QuestionFields : e.request.form_data[field] = <<"3">>
    /\ \E field \in QuestionFields : e.request.form_data[field] = <<"-", "3">>

--------------------------------------------------------------------------
(* C18 *)

\* C18: a PDF export request whose form has an answer for every one of
\* q1..q28 is never rejected as incomplete, whatever additional fields whose
\* names start with "q" the form carries: export_pdf goes on to
\* compute_scores instead of answering with the HTTP 400 incomplete-answers
\* error.
C18_CompleteExportNotRejected ==
  \A e \in Exchanges :
    (e.request.endpoint = "export_pdf" /\ AbsentIds(e.request.form) = {}) =>
      /\ e.response.kind # "rejected"
      /\ e.response.status # 400

--------------------------------------------------------------------------
(* C19 *)

\* the exchange after a questionnaire POST that was redirected to results: the
\* GET of the redirect's location
Followed ==
  {i \in 1..(Len(history) - 1) :
     /\ history[i].request.endpoint = "questionnaire"
     /\ history[i].request.method = "POST"
     /\ history[i].response.kind = "redirect"
     /\ history[i].response.endpoint = "results"
     /\ history[i + 1].request = Get_("results", history[i].response.query)}

\* a GET of results redirects to the questionnaire exactly when a question is
\* absent from the query
RedirectsIffAbsent ==
  \A e \in Exchanges :
    e.request.endpoint = "results" =>
      IF AbsentIds(e.request.args) # {}
      THEN e.response = Redirect("questionnaire",
                                 [field \in {LangField} |-> set_language(e.request)])
      ELSE e.response.kind # "redirect"

\* C19: a GET of results in which any of q1..q28 is absent redirects to the
\* questionnaire without scoring, and a GET in which all 28 are present never
\* redirects; hence a questionnaire POST that passes the completeness check
\* and is redirected to results with its q-fields always ends on the result
\* page, never in a redirect back to the questionnaire.
C19_SubmissionEndsOnResultPage ==
  /\ RedirectsIffAbsent
  /\ \A i \in Followed : history[i + 1].response.kind = "result"

\* the part of C19 about the redirects alone: the GET that follows a redirected
\* questionnaire POST carries all 28 answers and is never redirected back
C19_NoRedirectLoop ==
  /\ RedirectsIffAbsent
  /\ \A i \in Followed :
       /\ AbsentIds(history[i + 1].request.args) = {}
       /\ history[i + 1].response.kind \in {"result", "error"}

\* a redirected questionnaire POST whose GET has been answered with the page
C19_FollowedToResultPage ==
  \E i \in Followed :
    /\ history[i + 1].response.kind = "result"
    /\ history[i + 1].response.profile_code = <<"R", "P", "E", "A">>

--------------------------------------------------------------------------
(* C20 *)

\* the language a route resolves for a request
LanguageOf(req) ==
  IF req.endpoint = "export_pdf" THEN export_language(req.form) ELSE set_language(req)

\* C20: whenever get_persona_content returns an entry for the code derived
\* from a request's answers, results and export_pdf do not fail: they answer
\* with the result page or the PDF, whose persona_sections are the entry's
\* sections or the empty list when the entry has no "sections" key, whose
\* tagline is the entry's tagline and whose tagline heading is the entry's,
\* or None when it has none.
C20_PersonaFieldsDerived ==
  \A e \in Exchanges :
    \A profile_code \in ProfileCodes :
      (/\ e.request.endpoint \in {"results", "export_pdf"}
       /\ AnswersAndLanguage(FieldsOf(e.request))
       /\ FollowsPlan(e.request, profile_code)
       /\ get_persona_content(profile_code, LanguageOf(e.request)) # NoDict) =>
        LET entry == get_persona_content(profile_code, LanguageOf(e.request))
        IN /\ e.response.kind \in {"result", "pdf"}
           /\ e.response.persona_sections = Get(entry, "sections", <<>>)
           /\ e.response.persona_tagline = Get(entry, "tagline", None)
           /\ e.response.persona_tagline_heading = Get(entry, "tagline_heading", None)

\* the persona fields are derived as C20 says from every entry that has a
\* "sections" key
C20_DerivedWhenSectionsKey ==
  \A e \in Exchanges :
    \A profile_code \in ProfileCodes :
      (/\ e.request.endpoint \in {"results", "export_pdf"}
       /\ AnswersAndLanguage(FieldsOf(e.request))
       /\ FollowsPlan(e.request, profile_code)
       /\ get_persona_content(profile_code, LanguageOf(e.request)) # NoDict) =>
        LET entry == get_persona_content(profile_code, LanguageOf(e.request))
        IN IF "sections" \in DOMAIN entry
           THEN /\ e.response.kind \in {"result", "pdf"}
                /\ e.response.persona_sections = entry.sections
                /\ e.response.persona_tagline = Get(entry, "tagline", None)
                /\ e.response.persona_tagline_heading = Get(entry, "tagline_heading", None)
           ELSE e.response = ServerError("KeyError")

--------------------------------------------------------------------------
(* C21 *)

\* the answers of a request to the 28 questions, each negated
Negated(req) ==
  [field \in QuestionFields |-> str(-int(FieldsOf(req)[field]))]

\* what compute_scores and build_profile_code make of the negated answers
NegatedOutcome(req) ==
  LET score_data == compute_scores(Negated(req))
  IN IF score_data.raised # None THEN [raised |-> score_data.raised]
     ELSE [raised |-> None,
           axis_scores |-> score_data.axis_scores,
           breakdown |-> build_profile_code(score_data.axis_scores, NoFields).breakdown,
           profile_code |-> build_profile_code(score_data.axis_scores, NoFields).profile_code]

\* C21: for every complete answer set of integers in [-3, 3], negating all 28
\* answers negates each of the four axis scores; the selected letter of an
\* axis is the opposite pole for the negated answers exactly when the axis's
\* score is nonzero, and an axis with score 0 selects the positive letter for
\* both the answer set and its negation.
C21_SignAntisymmetry ==
  \A e \in Scored :
    ValidComplete(e.request) =>
      LET negated == NegatedOutcome(e.request)
      IN /\ negated.raised = None
         /\ \A axis_key \in AxisKeys :
              negated.axis_scores[axis_key] = -e.response.axis_scores[axis_key]
         /\ \A k \in 1..Len(e.response.breakdown) :
              LET entry == e.response.breakdown[k]
                  mirror == negated.breakdown[k]
                  info == AxesTable[entry.axis_key]
              IN /\ mirror.axis_key = entry.axis_key
                 /\ mirror.score = -entry.score
                 /\ {entry.selected, mirror.selected} \subseteq {info.positive, info.negative}
                 /\ (mirror.selected # entry.selected) <=> (entry.score # 0)
                 /\ entry.score = 0 =>
                      (entry.selected = info.positive /\ mirror.selected = info.positive)
                 /\ negated.profile_code[k] = mirror.selected

\* C21 witness: answers scored with a tie on one axis, a positive score on
\* another and a negative score on a third, whose negation keeps the letter of
\* the tied axis and takes the opposite letter on the other two
C21_Witness ==
  \E e \in Scored :
    /\ ValidComplete(e.request)
    /\ \E field \in QuestionFields : int(FieldsOf(e.request)[field]) # 0
    /\ LET negated == NegatedOutcome(e.request)
       IN /\ negated.raised = None
          /\ \E tied, up, down \in 1..Len(e.response.breakdown) :
               /\ e.response.breakdown[tied].score = 0
               /\ negated.profile_code[tied] = e.response.profile_code[tied]
               /\ e.response.breakdown[up].score > 0
               /\ negated.breakdown[up].score < 0
               /\ negated.profile_code[up] = AxesTable[e.response.breakdown[up].axis_key].negative
               /\ e.response.breakdown[down].score < 0
               /\ negated.breakdown[down].score > 0
               /\ negated.profile_code[down]
                    = AxesTable[e.response.breakdown[down].axis_key].positive

====
